---- MODULE Spec2Model ----
(***************************************************************************)
(* Model of the Aurora member QA service: the message fetcher, retriever,  *)
(* context builder and answerer of app/qa.py, the request handler of       *)
(* app/main.py, and the anomaly detectors of app/analysis.py.              *)
(*                                                                         *)
(* Python values are modelled as follows.  A dict is a function whose      *)
(* domain is its key set.  A str whose characters matter (message text,    *)
(* timestamps, context lines) is a sequence of one-character strings or of *)
(* digits; a str that is only carried around is a TLA+ string.  None is    *)
(* the string "None".                                                      *)
(***************************************************************************)
EXTENDS Integers, Sequences, FiniteSets, TLC

\* requests and resps record the offsets asked for and the answers received.
VARIABLES limit, all_msgs, skip, attempt, requests, resps, fpc, returned

fetchVars == <<limit, all_msgs, skip, attempt, requests, resps, fpc, returned>>

VARIABLES messages, threshold_count, time_window_seconds,
          impossible_times, bursts, apc

analysisVars == <<messages, threshold_count, time_window_seconds,
                  impossible_times, bursts, apc>>

VARIABLES corpus, score, k, ranked, rpc

retrieveVars == <<corpus, score, k, ranked, rpc>>

\* stop_line is the line the budget check refused, <<>> while there is none.
VARIABLES snippets, max_chars, lines, used, pos, stop_line, context, bpc

buildVars == <<snippets, max_chars, lines, used, pos, stop_line, context, bpc>>

VARIABLES OPENAI_API_KEY, entry, qa_messages, qa_score, prompt_context, outcome, qpc

answerVars == <<OPENAI_API_KEY, entry, qa_messages, qa_score, prompt_context, outcome, qpc>>

VARIABLES c_messages, max_examples, api_key, candidate_msgs, reply, flagged, cpc

classifyVars == <<c_messages, max_examples, api_key, candidate_msgs, reply, flagged, cpc>>

vars == <<fetchVars, analysisVars, retrieveVars, buildVars, answerVars, classifyVars>>

notFetch == <<analysisVars, retrieveVars, buildVars, answerVars, classifyVars>>
notAnalysis == <<fetchVars, retrieveVars, buildVars, answerVars, classifyVars>>
notRetrieve == <<fetchVars, analysisVars, buildVars, answerVars, classifyVars>>
notBuild == <<fetchVars, analysisVars, retrieveVars, answerVars, classifyVars>>
notAnswer == <<fetchVars, analysisVars, retrieveVars, buildVars, classifyVars>>
notClassify == <<fetchVars, analysisVars, retrieveVars, buildVars, answerVars>>

None == "None"

\* dict.get(k, default) / dict.pop(k, default) read the same value.
Get(m, key, default) == IF key \in DOMAIN m THEN m[key] ELSE default

RECURSIVE Concat(_)
Concat(ss) == IF ss = <<>> THEN <<>> ELSE Head(ss) \o Concat(Tail(ss))

(***************************************************************************)
(* qa.fetch_messages                                                       *)
(***************************************************************************)

page_size == 100
MaxAttempts == 3

\* The limits the program calls fetch_messages with: the default, the /ask
\* handler's and the analysis script's.
Limits == {200, 300, 500}

\* Shapes of one item of the source: all fields, no "message" key, a null
\* "message".
ItemShapes == {"full", "no_message", "null_message"}

RawItem(i, shape) ==
    CASE shape = "full" ->
           [id |-> i, user_id |-> "u1", user_name |-> "Ann", message |-> "hello",
            timestamp |-> "2024-01-01T00:00:00+00:00"]
      [] shape = "no_message" ->
           [id |-> i, user_id |-> "u1", user_name |-> "Ann",
            timestamp |-> "2024-01-01T00:00:00+00:00"]
      [] OTHER ->
           [id |-> i, user_id |-> "u1", user_name |-> "Ann", message |-> None,
            timestamp |-> "2024-01-01T00:00:00+00:00"]

Page(offset, n, shape) == [i \in 1..n |-> RawItem(offset + i, shape)]

\* What the source may answer to GET ?skip=offset&limit=page_size: a status
\* (0: no response, the transport failed), whether the body parses as JSON,
\* and the "items" of the body.
Responses(offset) ==
    {[status |-> 200, parses |-> TRUE, items |-> Page(offset, n, s)] :
        n \in {page_size, 40}, s \in ItemShapes}
    \cup {[status |-> 200, parses |-> b, items |-> <<>>] : b \in BOOLEAN}
    \cup {[status |-> c, parses |-> TRUE, items |-> <<>>] : c \in {0, 401, 403, 500}}

IsAuthStatusOnly403(status) == status = 403

\* The two statuses that end the fetch with the partial result.
IsAuthStatus(status) == status = 403 \/ status = 401

\* requests.get raising, raise_for_status raising, resp.json raising.
Raises(r) == r.status = 0 \/ r.status # 200 \/ ~r.parses

Normalize(m) ==
    LET keys == (DOMAIN m \ {"user_id", "user_name", "message"})
                \cup {"member_id", "member_name", "text"}
        msg  == Get(m, "message", "")
    IN [key \in keys |->
          CASE key = "member_id"   -> Get(m, "user_id", None)
            [] key = "member_name" -> Get(m, "user_name", None)
            [] key = "text"        -> IF msg = None \/ msg = "" THEN "" ELSE msg
            [] OTHER               -> m[key]]

NormalizeAll(msgs) == [i \in DOMAIN msgs |-> Normalize(msgs[i])]

FetchInit ==
    /\ limit \in Limits
    /\ all_msgs = <<>>
    /\ skip = 0
    /\ attempt = 0
    /\ requests = <<>>
    /\ resps = <<>>
    /\ fpc = "loop"
    /\ returned = <<>>
    \* the other functions are idle
    /\ messages = <<>> /\ threshold_count = 0 /\ time_window_seconds = 0
    /\ impossible_times = <<>> /\ bursts = <<>> /\ apc = "idle"
    /\ corpus = <<>> /\ score = <<>> /\ k = 0 /\ ranked = <<>> /\ rpc = "idle"
    /\ snippets = <<>> /\ max_chars = 0 /\ lines = <<>> /\ used = 0 /\ pos = 0
    /\ stop_line = <<>> /\ context = <<>> /\ bpc = "idle"
    /\ OPENAI_API_KEY = None /\ entry = "idle" /\ qa_messages = <<>>
    /\ qa_score = <<>> /\ prompt_context = <<>>
    /\ outcome = [kind |-> "pending", value |-> <<>>] /\ qpc = "idle"
    /\ c_messages = <<>> /\ max_examples = 0 /\ api_key = None
    /\ candidate_msgs = <<>> /\ reply = [kind |-> "none", entries |-> <<>>]
    /\ flagged = <<>> /\ cpc = "idle"

\* The loop is over: normalise what was accumulated and return it.
FetchFinish(msgs) ==
    /\ fpc' = "returned"
    /\ returned' = NormalizeAll(msgs)

\* The for loop goes on if it has iterations left, and ends otherwise.
FetchContinue(msgs) ==
    IF attempt + 1 < MaxAttempts
    THEN fpc' = "loop" /\ returned' = returned
    ELSE FetchFinish(msgs)

FetchAuthStop ==
    /\ UNCHANGED notFetch
    /\ fpc = "loop"
    /\ \E r \in Responses(skip) :
         /\ IsAuthStatus(r.status)
         /\ requests' = Append(requests, skip)
         /\ resps' = Append(resps, r)
         /\ attempt' = attempt + 1
         /\ fpc' = "returned"
         /\ returned' = all_msgs
         /\ UNCHANGED <<limit, all_msgs, skip>>

FetchFail ==
    /\ UNCHANGED notFetch
    /\ fpc = "loop"
    /\ \E r \in Responses(skip) :
         /\ ~IsAuthStatus(r.status)
         /\ Raises(r)
         /\ requests' = Append(requests, skip)
         /\ resps' = Append(resps, r)
         /\ attempt' = attempt + 1
         /\ FetchContinue(all_msgs)
         /\ UNCHANGED <<limit, all_msgs, skip>>

FetchEmptyPage ==
    /\ UNCHANGED notFetch
    /\ fpc = "loop"
    /\ \E r \in Responses(skip) :
         /\ ~IsAuthStatus(r.status)
         /\ ~Raises(r)
         /\ r.items = <<>>
         /\ requests' = Append(requests, skip)
         /\ resps' = Append(resps, r)
         /\ attempt' = attempt + 1
         /\ FetchFinish(all_msgs)
         /\ UNCHANGED <<limit, all_msgs, skip>>

FetchPage ==
    /\ UNCHANGED notFetch
    /\ fpc = "loop"
    /\ \E r \in Responses(skip) :
         /\ ~IsAuthStatus(r.status)
         /\ ~Raises(r)
         /\ r.items # <<>>
         /\ requests' = Append(requests, skip)
         /\ resps' = Append(resps, r)
         /\ attempt' = attempt + 1
         /\ all_msgs' = all_msgs \o r.items
         /\ skip' = skip + page_size
         /\ IF skip' >= limit THEN FetchFinish(all_msgs') ELSE FetchContinue(all_msgs')
         /\ UNCHANGED limit

FetchNext == FetchAuthStop \/ FetchFail \/ FetchEmptyPage \/ FetchPage

(***************************************************************************)
(* analysis.detect_burst_messages and the timestamp scan of analysis.main  *)
(*                                                                         *)
(* A timestamp string "202y-01-01T0h:00:s0+0o:00" is the sequence          *)
(* <<y, h, s, o>> of its varying digits, so that comparing two such        *)
(* sequences lexicographically is comparing the strings.  A character      *)
(* code above 9 is a letter; "" is <<>>.                                   *)
(***************************************************************************)

MaxBurstMsgs == 3
MaxThreshold == 3
CurrentYear == 2026

\* 2024 00:00:00Z, 00:00:20Z, 00:00:40Z, 01:00:00+01:00 (= 00:00:00Z) and
\* 2029 00:00:00Z.
WellFormedTs == {<<4, 0, 0, 0>>, <<4, 0, 2, 0>>, <<4, 0, 4, 0>>, <<4, 1, 0, 1>>,
                 <<9, 0, 0, 0>>}
MalformedTs == <<10, 10>>

BurstInputs ==
    {[member_name |-> n, timestamp |-> t] :
        n \in {"A", "B"}, t \in WellFormedTs \cup {MalformedTs, <<>>}}
    \cup {[timestamp |-> <<4, 0, 0, 0>>], [member_name |-> "A"]}

\* Python's < on str: by code point, a proper prefix first.
RECURSIVE StrLess(_, _)
StrLess(a, b) ==
    IF b = <<>> THEN FALSE
    ELSE IF a = <<>> THEN TRUE
    ELSE IF Head(a) # Head(b) THEN Head(a) < Head(b)
    ELSE StrLess(Tail(a), Tail(b))

\* dateutil's parse succeeds on the strings of the format above.
Parses(ts) == Len(ts) = 4 /\ \A i \in 1..4 : ts[i] <= 9

Year(ts) == 2020 + ts[1]

\* The parsed instant, in seconds since 2020-01-01T00:00:00Z.
DateParse(ts) == ts[1] * 31536000 + ts[2] * 3600 + ts[3] * 10 - ts[4] * 3600

\* m.get("timestamp") is truthy.
HasTimestamp(m) == "timestamp" \in DOMAIN m /\ m.timestamp # <<>>

UserOf(m) == Get(m, "member_name", "Unknown")

\* The keys of by_user, in insertion order.
RECURSIVE UsersInOrder(_)
UsersInOrder(msgs) ==
    IF msgs = <<>> THEN <<>>
    ELSE LET rest == UsersInOrder(SubSeq(msgs, 1, Len(msgs) - 1))
             u    == UserOf(msgs[Len(msgs)])
         IN IF \E i \in DOMAIN rest : rest[i] = u THEN rest ELSE Append(rest, u)

IsUser(u, m) == UserOf(m) = u

GroupOf(msgs, u) == SelectSeq(msgs, LAMBDA m : IsUser(u, m))

\* list.sort(key=lambda x: x["timestamp"]): stable, on the raw string.
RECURSIVE SortByTimestamp(_)
SortByTimestamp(msgs) ==
    IF msgs = <<>> THEN <<>>
    ELSE LET s == SortByTimestamp(SubSeq(msgs, 1, Len(msgs) - 1))
             m == msgs[Len(msgs)]
             n == Cardinality({i \in DOMAIN s : ~StrLess(m.timestamp, s[i].timestamp)})
         IN SubSeq(s, 1, n) \o <<m>> \o SubSeq(s, n + 1, Len(s))

ValidMsgs(msgs) == SortByTimestamp(SelectSeq(msgs, HasTimestamp))

SetMin(S) == CHOOSE x \in S : \A y \in S : x <= y

RECURSIVE SetToAscSeq(_)
SetToAscSeq(S) ==
    IF S = {} THEN <<>> ELSE <<SetMin(S)>> \o SetToAscSeq(S \ {SetMin(S)})

\* The window positions (0-based, as in the code) that qualify.
QualifyingWindows(times, tc, w) ==
    {i \in 0..(Len(times) - tc) : times[i + tc] - times[i + 1] <= w}

AllQualifyingWindows(times, tc, w) == SetToAscSeq(QualifyingWindows(times, tc, w))

\* The positions a user is flagged at: the first that qualifies, then break.
FlaggedWindows(times, tc, w) ==
    IF QualifyingWindows(times, tc, w) = {} THEN <<>>
    ELSE <<SetMin(QualifyingWindows(times, tc, w))>>

\* One iteration of the loop over by_user; only reached with every timestamp
\* of the user's valid messages parsed.
UserBursts(u, msgs, tc, w) ==
    LET valid == ValidMsgs(GroupOf(msgs, u))
        times == [i \in DOMAIN valid |-> DateParse(valid[i].timestamp)]
        hits  == FlaggedWindows(times, tc, w)
    IN [j \in DOMAIN hits |->
          [user |-> u, count |-> tc,
           start |-> valid[hits[j] + 1].timestamp,
           end |-> valid[hits[j] + tc].timestamp]]

\* date_parse raises on some timestamp of some user's valid messages.
DetectRaises(msgs) ==
    \E i \in DOMAIN msgs : HasTimestamp(msgs[i]) /\ ~Parses(msgs[i].timestamp)

DetectBurstMessages(msgs, tc, w) ==
    LET users == UsersInOrder(msgs)
    IN Concat([j \in DOMAIN users |-> UserBursts(users[j], msgs, tc, w)])

\* analysis.main's timestamp loop: messages parsed to a year past the cutoff;
\* missing and unparseable timestamps are skipped.
IsImpossible(m) ==
    /\ HasTimestamp(m)
    /\ Parses(m.timestamp)
    /\ Year(m.timestamp) > CurrentYear + 2

AnalysisInit ==
    /\ messages \in UNION {[1..n -> BurstInputs] : n \in 0..MaxBurstMsgs}
    /\ threshold_count \in 1..MaxThreshold
    /\ time_window_seconds \in {0, 30}
    /\ impossible_times = <<>>
    /\ bursts = <<>>
    /\ apc = "scan"
    \* the other functions are idle
    /\ limit = 0 /\ all_msgs = <<>> /\ skip = 0 /\ attempt = 0
    /\ requests = <<>> /\ resps = <<>> /\ fpc = "idle" /\ returned = <<>>
    /\ corpus = <<>> /\ score = <<>> /\ k = 0 /\ ranked = <<>> /\ rpc = "idle"
    /\ snippets = <<>> /\ max_chars = 0 /\ lines = <<>> /\ used = 0 /\ pos = 0
    /\ stop_line = <<>> /\ context = <<>> /\ bpc = "idle"
    /\ OPENAI_API_KEY = None /\ entry = "idle" /\ qa_messages = <<>>
    /\ qa_score = <<>> /\ prompt_context = <<>>
    /\ outcome = [kind |-> "pending", value |-> <<>>] /\ qpc = "idle"
    /\ c_messages = <<>> /\ max_examples = 0 /\ api_key = None
    /\ candidate_msgs = <<>> /\ reply = [kind |-> "none", entries |-> <<>>]
    /\ flagged = <<>> /\ cpc = "idle"

ScanTimestamps ==
    /\ UNCHANGED notAnalysis
    /\ apc = "scan"
    /\ impossible_times' = SelectSeq(messages, IsImpossible)
    /\ apc' = "burst"
    /\ UNCHANGED <<messages, threshold_count, time_window_seconds, bursts>>

DetectReturns ==
    /\ UNCHANGED notAnalysis
    /\ apc = "burst"
    /\ ~DetectRaises(messages)
    /\ bursts' = DetectBurstMessages(messages, threshold_count, time_window_seconds)
    /\ apc' = "done"
    /\ UNCHANGED <<messages, threshold_count, time_window_seconds, impossible_times>>

DetectRaisesError ==
    /\ UNCHANGED notAnalysis
    /\ apc = "burst"
    /\ DetectRaises(messages)
    /\ apc' = "raised"
    /\ UNCHANGED <<messages, threshold_count, time_window_seconds, impossible_times,
                   bursts>>

AnalysisNext == ScanTimestamps \/ DetectReturns \/ DetectRaisesError

(***************************************************************************)
(* qa.retrieve_top                                                         *)
(*                                                                         *)
(* A message of the QA path has its string fields as sequences of          *)
(* characters.  The fuzzy score of a message against the question is the   *)
(* ranking library's: an input, a function of the message (equal messages  *)
(* score equally).  ranked holds the positions, in the input, of the       *)
(* message objects returned.                                               *)
(***************************************************************************)

MaxCorpus == 3
MaxK == 3
ScoreCutoff == 40

QaMsgs ==
    {[member_name |-> <<"A">>, timestamp |-> <<"t">>, id |-> <<"1">>,
      text |-> <<"h", "i">>],
     [member_name |-> <<"B">>, timestamp |-> <<"t">>, id |-> <<"2">>,
      text |-> <<" ", "a", " ", "\n", "b", "\t">>],
     [id |-> <<"3">>]}

Scores == {0, 39, 40, 100}

Min(a, b) == IF a <= b THEN a ELSE b

\* The position process.extract ranks first among S: the highest score, the
\* lowest index among equals.
Best(sc, S) ==
    CHOOSE i \in S : \A j \in S : sc[i] > sc[j] \/ (sc[i] = sc[j] /\ i <= j)

RECURSIVE TopOf(_, _, _)
TopOf(sc, S, lim) ==
    IF lim = 0 \/ S = {} THEN <<>>
    ELSE <<Best(sc, S)>> \o TopOf(sc, S \ {Best(sc, S)}, lim - 1)

\* process.extract(question, strings, limit=lim): positions by descending score.
Extract(sc, lim) == TopOf(sc, DOMAIN sc, lim)

FirstK(n, kk) == [i \in 1..Min(kk, n) |-> i]

NoFallback(hits, n, kk) == hits

\* if not ranked: ranked = [m for _, m in corpus[:k]]
Fallback(hits, n, kk) == IF hits = <<>> THEN FirstK(n, kk) ELSE hits

AtLeastCutoff(sc, i) == sc[i] >= ScoreCutoff

RetrieveTop(msgs, scoreOf, kk) ==
    IF msgs = <<>> THEN <<>>
    ELSE LET sc      == [i \in DOMAIN msgs |-> scoreOf[msgs[i]]]
             results == Extract(sc, Min(kk, Len(msgs)))
             hits    == SelectSeq(results, LAMBDA i : AtLeastCutoff(sc, i))
             out     == Fallback(hits, Len(msgs), kk)
         IN SubSeq(out, 1, Min(kk, Len(out)))

RetrieveInit ==
    /\ corpus \in UNION {[1..n -> QaMsgs] : n \in 0..MaxCorpus}
    /\ score \in [QaMsgs -> Scores]
    /\ k \in 1..MaxK
    /\ ranked = <<>>
    /\ rpc = "call"
    \* the other functions are idle
    /\ limit = 0 /\ all_msgs = <<>> /\ skip = 0 /\ attempt = 0
    /\ requests = <<>> /\ resps = <<>> /\ fpc = "idle" /\ returned = <<>>
    /\ messages = <<>> /\ threshold_count = 0 /\ time_window_seconds = 0
    /\ impossible_times = <<>> /\ bursts = <<>> /\ apc = "idle"
    /\ snippets = <<>> /\ max_chars = 0 /\ lines = <<>> /\ used = 0 /\ pos = 0
    /\ stop_line = <<>> /\ context = <<>> /\ bpc = "idle"
    /\ OPENAI_API_KEY = None /\ entry = "idle" /\ qa_messages = <<>>
    /\ qa_score = <<>> /\ prompt_context = <<>>
    /\ outcome = [kind |-> "pending", value |-> <<>>] /\ qpc = "idle"
    /\ c_messages = <<>> /\ max_examples = 0 /\ api_key = None
    /\ candidate_msgs = <<>> /\ reply = [kind |-> "none", entries |-> <<>>]
    /\ flagged = <<>> /\ cpc = "idle"

RetrieveEmpty ==
    /\ UNCHANGED notRetrieve
    /\ rpc = "call"
    /\ corpus = <<>>
    /\ ranked' = RetrieveTop(corpus, score, k)
    /\ rpc' = "done"
    /\ UNCHANGED <<corpus, score, k>>

RetrieveRanks ==
    /\ UNCHANGED notRetrieve
    /\ rpc = "call"
    /\ corpus # <<>>
    /\ ranked' = RetrieveTop(corpus, score, k)
    /\ rpc' = "done"
    /\ UNCHANGED <<corpus, score, k>>

RetrieveNext == RetrieveEmpty \/ RetrieveRanks

(***************************************************************************)
(* qa.format_context                                                       *)
(***************************************************************************)

MaxSnippets == 3
MaxBudget == 40

NoneStr == <<"N", "o", "n", "e">>

IsSpace(c) == c \in {" ", "\n", "\t"}

\* re.sub(r"\s+", " ", text): every run of whitespace becomes one space.
RECURSIVE CollapseSpaces(_)
CollapseSpaces(t) ==
    IF t = <<>> THEN <<>>
    ELSE IF IsSpace(Head(t))
         THEN IF Len(t) > 1 /\ IsSpace(t[2])
              THEN CollapseSpaces(Tail(t))
              ELSE <<" ">> \o CollapseSpaces(Tail(t))
         ELSE <<Head(t)>> \o CollapseSpaces(Tail(t))

RECURSIVE LStrip(_)
LStrip(t) == IF t # <<>> /\ IsSpace(Head(t)) THEN LStrip(Tail(t)) ELSE t

RECURSIVE RStrip(_)
RStrip(t) ==
    IF t # <<>> /\ IsSpace(t[Len(t)]) THEN RStrip(SubSeq(t, 1, Len(t) - 1)) ELSE t

Strip(t) == RStrip(LStrip(t))

\* f"- {name} | {ts} | {mid}: {txt}"
Line(m) ==
    <<"-", " ">> \o Get(m, "member_name", NoneStr)
    \o <<" ", "|", " ">> \o Get(m, "timestamp", NoneStr)
    \o <<" ", "|", " ">> \o Get(m, "id", NoneStr)
    \o <<":", " ">> \o Strip(CollapseSpaces(Get(m, "text", <<>>)))

RECURSIVE Join(_)
Join(ls) ==
    IF ls = <<>> THEN <<>>
    ELSE IF Len(ls) = 1 THEN ls[1]
    ELSE ls[1] \o <<"\n">> \o Join(Tail(ls))

OverBudgetIgnoringLine(u, line, budget) == u > budget

\* if used + len(line) > max_chars: break
OverBudget(u, line, budget) == u + Len(line) > budget

\* The whole loop, from the state [lines, used] over the snippets left.
RECURSIVE FormatLoop(_, _, _)
FormatLoop(st, rest, budget) ==
    IF rest = <<>> \/ OverBudget(st.used, Line(Head(rest)), budget) THEN st
    ELSE FormatLoop([lines |-> Append(st.lines, Line(Head(rest))),
                     used |-> st.used + Len(Line(Head(rest)))],
                    Tail(rest), budget)

FormatContext(snips, budget) ==
    Join(FormatLoop([lines |-> <<>>, used |-> 0], snips, budget).lines)

BuildInit ==
    /\ snippets \in UNION {[1..n -> QaMsgs] : n \in 0..MaxSnippets}
    /\ max_chars \in 0..MaxBudget
    /\ lines = <<>>
    /\ used = 0
    /\ pos = 1
    /\ stop_line = <<>>
    /\ context = <<>>
    /\ bpc = "loop"
    \* the other functions are idle
    /\ limit = 0 /\ all_msgs = <<>> /\ skip = 0 /\ attempt = 0
    /\ requests = <<>> /\ resps = <<>> /\ fpc = "idle" /\ returned = <<>>
    /\ messages = <<>> /\ threshold_count = 0 /\ time_window_seconds = 0
    /\ impossible_times = <<>> /\ bursts = <<>> /\ apc = "idle"
    /\ corpus = <<>> /\ score = <<>> /\ k = 0 /\ ranked = <<>> /\ rpc = "idle"
    /\ OPENAI_API_KEY = None /\ entry = "idle" /\ qa_messages = <<>>
    /\ qa_score = <<>> /\ prompt_context = <<>>
    /\ outcome = [kind |-> "pending", value |-> <<>>] /\ qpc = "idle"
    /\ c_messages = <<>> /\ max_examples = 0 /\ api_key = None
    /\ candidate_msgs = <<>> /\ reply = [kind |-> "none", entries |-> <<>>]
    /\ flagged = <<>> /\ cpc = "idle"

BuildAppend ==
    /\ UNCHANGED notBuild
    /\ bpc = "loop"
    /\ pos <= Len(snippets)
    /\ ~OverBudget(used, Line(snippets[pos]), max_chars)
    /\ lines' = Append(lines, Line(snippets[pos]))
    /\ used' = used + Len(Line(snippets[pos]))
    /\ pos' = pos + 1
    /\ UNCHANGED <<snippets, max_chars, stop_line, context, bpc>>

BuildStop ==
    /\ UNCHANGED notBuild
    /\ bpc = "loop"
    /\ pos <= Len(snippets)
    /\ OverBudget(used, Line(snippets[pos]), max_chars)
    /\ stop_line' = Line(snippets[pos])
    /\ context' = Join(lines)
    /\ bpc' = "done"
    /\ UNCHANGED <<snippets, max_chars, lines, used, pos>>

BuildReturn ==
    /\ UNCHANGED notBuild
    /\ bpc = "loop"
    /\ pos > Len(snippets)
    /\ context' = Join(lines)
    /\ bpc' = "done"
    /\ UNCHANGED <<snippets, max_chars, lines, used, pos, stop_line>>

BuildNext == BuildAppend \/ BuildStop \/ BuildReturn

(***************************************************************************)
(* qa.llm_answer, qa.route and main.ask                                    *)
(*                                                                         *)
(* entry is the function the caller entered: llm_answer or route directly, *)
(* or the /ask handler, whose messages are those fetch_messages returned.  *)
(* outcome is how the entered function ended.                              *)
(***************************************************************************)
MaxQaMsgs == 2
DefaultK == 24
DefaultMaxChars == 8000

ReplyTexts == {<<"y", "e", "s">>, <<" ", "n", "o", "\n">>, <<>>}

\* How a call of the completion service can fail; null_content is a reply
\* whose message content is None, on which .strip() raises.
CompletionFailures == {"transport", "timeout", "error_response", "null_content"}

\* not OPENAI_API_KEY
NoKey(key) == key = None \/ key = ""

MsgsAt(msgs, positions) == [i \in DOMAIN positions |-> msgs[positions[i]]]

\* The context route hands to llm_answer.
RouteContext(msgs, scoreOf) ==
    FormatContext(MsgsAt(msgs, RetrieveTop(msgs, scoreOf, DefaultK)), DefaultMaxChars)

AnswerInit ==
    /\ OPENAI_API_KEY \in {None, "", "sk-test"}
    /\ entry \in {"llm_answer", "route", "ask"}
    /\ qa_messages \in UNION {[1..n -> QaMsgs] : n \in 0..MaxQaMsgs}
    /\ qa_score \in [QaMsgs -> {0, 100}]
    /\ prompt_context = <<>>
    /\ outcome = [kind |-> "pending", value |-> <<>>]
    /\ qpc = "start"
    \* the other functions are idle
    /\ limit = 0 /\ all_msgs = <<>> /\ skip = 0 /\ attempt = 0
    /\ requests = <<>> /\ resps = <<>> /\ fpc = "idle" /\ returned = <<>>
    /\ messages = <<>> /\ threshold_count = 0 /\ time_window_seconds = 0
    /\ impossible_times = <<>> /\ bursts = <<>> /\ apc = "idle"
    /\ corpus = <<>> /\ score = <<>> /\ k = 0 /\ ranked = <<>> /\ rpc = "idle"
    /\ snippets = <<>> /\ max_chars = 0 /\ lines = <<>> /\ used = 0 /\ pos = 0
    /\ stop_line = <<>> /\ context = <<>> /\ bpc = "idle"
    /\ c_messages = <<>> /\ max_examples = 0 /\ api_key = None
    /\ candidate_msgs = <<>> /\ reply = [kind |-> "none", entries |-> <<>>]
    /\ flagged = <<>> /\ cpc = "idle"

\* llm_answer called by itself, on a context of the caller's.
CallLlmAnswer ==
    /\ UNCHANGED notAnswer
    /\ qpc = "start"
    /\ entry = "llm_answer"
    /\ prompt_context' = Join([i \in DOMAIN qa_messages |-> Line(qa_messages[i])])
    /\ qpc' = "answer"
    /\ UNCHANGED <<OPENAI_API_KEY, entry, qa_messages, qa_score, outcome>>

RouteBuildsContext ==
    /\ UNCHANGED notAnswer
    /\ qpc = "start"
    /\ entry \in {"route", "ask"}
    /\ prompt_context' = RouteContext(qa_messages, qa_score)
    /\ qpc' = "answer"
    /\ UNCHANGED <<OPENAI_API_KEY, entry, qa_messages, qa_score, outcome>>

\* llm_answer (and route with it) has ended; the /ask handler goes on.
AfterAnswer == IF entry = "ask" THEN "respond" ELSE "done"

AnswerWithoutKey ==
    /\ UNCHANGED notAnswer
    /\ qpc = "answer"
    /\ NoKey(OPENAI_API_KEY)
    /\ outcome' = [kind |-> "returned", value |-> "Error: OPENAI_API_KEY missing"]
    /\ qpc' = AfterAnswer
    /\ UNCHANGED <<OPENAI_API_KEY, entry, qa_messages, qa_score, prompt_context>>

AnswerCallsService ==
    /\ UNCHANGED notAnswer
    /\ qpc = "answer"
    /\ ~NoKey(OPENAI_API_KEY)
    /\ qpc' = "calling"
    /\ UNCHANGED <<OPENAI_API_KEY, entry, qa_messages, qa_score, prompt_context,
                   outcome>>

CompletionReplies ==
    /\ UNCHANGED notAnswer
    /\ qpc = "calling"
    /\ \E content \in ReplyTexts :
         outcome' = [kind |-> "returned", value |-> Strip(content)]
    /\ qpc' = AfterAnswer
    /\ UNCHANGED <<OPENAI_API_KEY, entry, qa_messages, qa_score, prompt_context>>

\* Nothing in llm_answer or route catches: the exception leaves them.
CompletionFails ==
    /\ UNCHANGED notAnswer
    /\ qpc = "calling"
    /\ \E e \in CompletionFailures : outcome' = [kind |-> "raised", value |-> e]
    /\ qpc' = AfterAnswer
    /\ UNCHANGED <<OPENAI_API_KEY, entry, qa_messages, qa_score, prompt_context>>

\* ask: {"answer": answer}, or on an exception a 500 with "Error: <e>".
AskResponds ==
    /\ UNCHANGED notAnswer
    /\ qpc = "respond"
    /\ outcome' = IF outcome.kind = "raised"
                  THEN [kind |-> "http_500", value |-> outcome.value]
                  ELSE [kind |-> "http_200", value |-> outcome.value]
    /\ qpc' = "done"
    /\ UNCHANGED <<OPENAI_API_KEY, entry, qa_messages, qa_score, prompt_context>>

AnswerNext ==
    \/ CallLlmAnswer
    \/ RouteBuildsContext
    \/ AnswerWithoutKey
    \/ AnswerCallsService
    \/ CompletionReplies
    \/ CompletionFails
    \/ AskResponds

(***************************************************************************)
(* analysis.detect_underspecified_requests_gpt                             *)
(*                                                                         *)
(* A JSON value of the reply is [t, v]: its type and, for a number, a      *)
(* boolean (true is 1, false is 0, as json.loads' True and False compare)  *)
(* or a string of digits, the number it denotes.                           *)
(***************************************************************************)
MaxClassifyMsgs == 3
MaxExamples == 2
MaxReplyLen == 2

action_words ==
    <<<<"b", "o", "o", "k">>, <<"r", "e", "s", "e", "r", "v", "e">>,
      <<"s", "c", "h", "e", "d", "u", "l", "e">>,
      <<"a", "r", "r", "a", "n", "g", "e">>, <<"o", "r", "d", "e", "r">>,
      <<"b", "u", "y">>>>

\* "BUY", "book it", "Order", "hi"
Texts == {<<"B", "U", "Y">>, <<"b", "o", "o", "k", " ", "i", "t">>,
          <<"O", "r", "d", "e", "r">>, <<"h", "i">>}

\* str.lower, on the letters the texts above are written in.
LowerChar(c) ==
    CASE c = "B" -> "b" [] c = "U" -> "u" [] c = "Y" -> "y" [] c = "O" -> "o"
      [] OTHER -> c

Lower(t) == [i \in DOMAIN t |-> LowerChar(t[i])]

\* a in lower
Contains(t, a) ==
    \E i \in 1..(Len(t) - Len(a) + 1) : SubSeq(t, i, i + Len(a) - 1) = a

LooksLikeRequest(m) ==
    \E j \in DOMAIN action_words : Contains(Lower(Get(m, "text", <<>>)), action_words[j])

ClassifyMsg(i, t) ==
    IF "text" \in DOMAIN t THEN [id |-> i, member_name |-> "A", text |-> t.text]
    ELSE [id |-> i, member_name |-> "A"]

ClassifyInputs(n) ==
    {[i \in 1..n |-> ClassifyMsg(i, f[i])] :
        f \in [1..n -> {[text |-> t] : t \in Texts} \cup {[absent |-> TRUE]}]}

JsonEntries ==
    {[t |-> "int", v |-> n] : n \in 0..(MaxExamples + 1)}
    \cup {[t |-> "bool", v |-> 1], [t |-> "bool", v |-> 0], [t |-> "float", v |-> 1],
          [t |-> "str", v |-> 1], [t |-> "null", v |-> 0]}

\* What the service call may give: an exception, or a content that is no
\* JSON, JSON that is no array, or a JSON array.
Replies ==
    {[kind |-> kd, entries |-> <<>>] : kd \in {"not_json", "not_array"}}
    \cup {[kind |-> "array", entries |-> es] :
            es \in UNION {[1..n -> JsonEntries] : n \in 0..MaxReplyLen}}

\* isinstance(i, int): bool is a subclass of int.
IsInstanceInt(e) == e.t = "int" \/ e.t = "bool"

Selected(e, cands) ==
    IF IsInstanceInt(e) /\ 1 <= e.v /\ e.v <= Len(cands) THEN <<cands[e.v]>> ELSE <<>>

MapBack(entries, cands) == Concat([j \in DOMAIN entries |-> Selected(entries[j], cands)])

Candidates(msgs, cap) ==
    LET all == SelectSeq(msgs, LooksLikeRequest)
    IN SubSeq(all, 1, Min(cap, Len(all)))

ClassifyInit ==
    /\ c_messages \in UNION {ClassifyInputs(n) : n \in 0..MaxClassifyMsgs}
    /\ max_examples \in 1..MaxExamples
    /\ api_key \in {None, "sk-test"}
    /\ candidate_msgs = <<>>
    /\ reply = [kind |-> "none", entries |-> <<>>]
    /\ flagged = <<>>
    /\ cpc = "start"
    \* the other functions are idle
    /\ limit = 0 /\ all_msgs = <<>> /\ skip = 0 /\ attempt = 0
    /\ requests = <<>> /\ resps = <<>> /\ fpc = "idle" /\ returned = <<>>
    /\ messages = <<>> /\ threshold_count = 0 /\ time_window_seconds = 0
    /\ impossible_times = <<>> /\ bursts = <<>> /\ apc = "idle"
    /\ corpus = <<>> /\ score = <<>> /\ k = 0 /\ ranked = <<>> /\ rpc = "idle"
    /\ snippets = <<>> /\ max_chars = 0 /\ lines = <<>> /\ used = 0 /\ pos = 0
    /\ stop_line = <<>> /\ context = <<>> /\ bpc = "idle"
    /\ OPENAI_API_KEY = None /\ entry = "idle" /\ qa_messages = <<>>
    /\ qa_score = <<>> /\ prompt_context = <<>>
    /\ outcome = [kind |-> "pending", value |-> <<>>] /\ qpc = "idle"

ClassifyWithoutKey ==
    /\ UNCHANGED notClassify
    /\ cpc = "start"
    /\ NoKey(api_key)
    /\ flagged' = <<>>
    /\ cpc' = "done"
    /\ UNCHANGED <<c_messages, max_examples, api_key, candidate_msgs, reply>>

ClassifyNoCandidates ==
    /\ UNCHANGED notClassify
    /\ cpc = "start"
    /\ ~NoKey(api_key)
    /\ SelectSeq(c_messages, LooksLikeRequest) = <<>>
    /\ flagged' = <<>>
    /\ cpc' = "done"
    /\ UNCHANGED <<c_messages, max_examples, api_key, candidate_msgs, reply>>

ClassifyCallsService ==
    /\ UNCHANGED notClassify
    /\ cpc = "start"
    /\ ~NoKey(api_key)
    /\ SelectSeq(c_messages, LooksLikeRequest) # <<>>
    /\ candidate_msgs' = Candidates(c_messages, max_examples)
    /\ cpc' = "calling"
    /\ UNCHANGED <<c_messages, max_examples, api_key, reply, flagged>>

ServiceFails ==
    /\ UNCHANGED notClassify
    /\ cpc = "calling"
    /\ reply' = [kind |-> "exception", entries |-> <<>>]
    /\ flagged' = <<>>
    /\ cpc' = "done"
    /\ UNCHANGED <<c_messages, max_examples, api_key, candidate_msgs>>

ReplyRejected ==
    /\ UNCHANGED notClassify
    /\ cpc = "calling"
    /\ \E r \in Replies :
         /\ r.kind # "array"
         /\ reply' = r
    /\ flagged' = <<>>
    /\ cpc' = "done"
    /\ UNCHANGED <<c_messages, max_examples, api_key, candidate_msgs>>

ReplyMapped ==
    /\ UNCHANGED notClassify
    /\ cpc = "calling"
    /\ \E r \in Replies :
         /\ r.kind = "array"
         /\ reply' = r
         /\ flagged' = MapBack(r.entries, candidate_msgs)
    /\ cpc' = "done"
    /\ UNCHANGED <<c_messages, max_examples, api_key, candidate_msgs>>

ClassifyNext ==
    \/ ClassifyWithoutKey
    \/ ClassifyNoCandidates
    \/ ClassifyCallsService
    \/ ServiceFails
    \/ ReplyRejected
    \/ ReplyMapped

(***************************************************************************)
(* Specifications: one per function, the others' state left idle           *)
(***************************************************************************)
SpecFetch == FetchInit /\ [][FetchNext]_vars

SpecAnalysis == AnalysisInit /\ [][AnalysisNext]_vars

SpecRetrieve == RetrieveInit /\ [][RetrieveNext]_vars

SpecBuild == BuildInit /\ [][BuildNext]_vars

SpecAnswer == AnswerInit /\ [][AnswerNext]_vars

SpecClassify == ClassifyInit /\ [][ClassifyNext]_vars

(***************************************************************************)
(* Properties of fetch_messages                                            *)
(***************************************************************************)
Succeeded(r) == r.status = 200 /\ r.parses

FullPage(r) == Succeeded(r) /\ Len(r.items) = 100

\* The items of the answers that succeeded, in the order received.
ItemsOf(history) ==
    Concat([j \in DOMAIN history |->
              IF Succeeded(history[j]) THEN history[j].items ELSE <<>>])

Canonical(m) ==
    /\ {"member_id", "member_name", "text"} \subseteq DOMAIN m
    /\ DOMAIN m \cap {"user_id", "user_name", "message"} = {}
    /\ m.text # None

\* C1: against a source whose every answer is a full page of 100 items, fetch
\* asks for the offsets 0, 100, 200, ... and returns at least limit items.
C1_FullPagesReachLimit ==
    (fpc = "returned" /\ \A j \in DOMAIN resps : FullPage(resps[j]))
        => /\ \A j \in DOMAIN requests : requests[j] = 100 * (j - 1)
           /\ Len(returned) >= limit

\* C2: on every exit path of fetch, every returned record is in the canonical
\* Message shape (member_id, member_name, text; no user_id, user_name,
\* message; text never None).
C2_ReturnedCanonical ==
    fpc = "returned" => \A i \in DOMAIN returned : Canonical(returned[i])

\* C3: a 401 or 403 answer is the last request fetch makes, and fetch then
\* returns (it does not raise) exactly the items of the pages that succeeded
\* before it.
C3_AuthStopsFetch ==
    \A j \in DOMAIN resps :
        resps[j].status \in {401, 403}
            => /\ j = Len(resps)
               /\ Len(requests) = j
               /\ fpc = "returned"
               /\ returned = ItemsOf(SubSeq(resps, 1, j - 1))

C3_Witness ==
    /\ fpc = "returned"
    /\ Len(resps) = 2
    /\ FullPage(resps[1])
    /\ resps[2].status = 403
    /\ Len(returned) = 100

(***************************************************************************)
(* Properties of detect_burst_messages and of the timestamp scan           *)
(***************************************************************************)
TimestampedOf(u) ==
    Cardinality({i \in DOMAIN messages :
                    UserOf(messages[i]) = u /\ HasTimestamp(messages[i])})

HasMalformedTimestamp ==
    \E i \in DOMAIN messages :
        HasTimestamp(messages[i]) /\ ~Parses(messages[i].timestamp)

\* Integers in ascending order.
RECURSIVE SortAsc(_)
SortAsc(xs) ==
    IF xs = <<>> THEN <<>>
    ELSE LET s == SortAsc(SubSeq(xs, 1, Len(xs) - 1))
             x == xs[Len(xs)]
             n == Cardinality({i \in DOMAIN s : s[i] <= x})
         IN SubSeq(s, 1, n) \o <<x>> \o SubSeq(s, n + 1, Len(s))

\* The parsed times of a user's timestamped messages, in time order.
TimesInOrder(u) ==
    LET valid == SelectSeq(GroupOf(messages, u), HasTimestamp)
    IN SortAsc([i \in DOMAIN valid |-> DateParse(valid[i].timestamp)])

\* The window positions (1-based) that qualify in time order.
WindowsInTimeOrder(u) ==
    {i \in 1..(Len(TimesInOrder(u)) - threshold_count + 1) :
        TimesInOrder(u)[i + threshold_count - 1] - TimesInOrder(u)[i]
            <= time_window_seconds}

\* C4: detect emits at most one record per user; each record has
\* count = threshold_count, end - start <= window_seconds, and a user with at
\* least threshold_count timestamped messages.
C4_OneBurstPerUser ==
    apc = "done"
        => /\ \A i, j \in DOMAIN bursts : bursts[i].user = bursts[j].user => i = j
           /\ \A i \in DOMAIN bursts :
                /\ bursts[i].count = threshold_count
                /\ DateParse(bursts[i].end) - DateParse(bursts[i].start)
                       <= time_window_seconds
                /\ TimestampedOf(bursts[i].user) >= threshold_count

\* A user with three messages within 20 seconds, so two windows of two
\* qualify, is flagged once.
C4_Witness ==
    /\ apc = "done"
    /\ threshold_count = 2
    /\ time_window_seconds = 30
    /\ Len(messages) = 3
    /\ \A i \in DOMAIN messages :
          /\ UserOf(messages[i]) = "A"
          /\ HasTimestamp(messages[i])
          /\ messages[i].timestamp \in {<<4, 0, 0, 0>>, <<4, 0, 2, 0>>}
    /\ Len(bursts) = 1

\* C5: a message with a present but malformed timestamp never makes the
\* burst detector or the anomaly scan raise.
C5_MalformedNeverRaises == HasMalformedTimestamp => apc # "raised"

\* C10: the window slides over the user's messages in the order of their
\* parsed times: the record emitted for a user is the earliest qualifying
\* window in time order, with start not later than end.
C10_WindowInTimeOrder ==
    apc = "done"
        => \A i \in DOMAIN bursts :
              LET u == bursts[i].user
              IN /\ DateParse(bursts[i].start) <= DateParse(bursts[i].end)
                 /\ WindowsInTimeOrder(u) # {}
                 /\ DateParse(bursts[i].start)
                        = TimesInOrder(u)[SetMin(WindowsInTimeOrder(u))]
                 /\ DateParse(bursts[i].end)
                        = TimesInOrder(u)[SetMin(WindowsInTimeOrder(u))
                                          + threshold_count - 1]

(***************************************************************************)
(* Properties of retrieve_top                                              *)
(***************************************************************************)
\* C7: on an empty message set retrieve returns nothing; on a non-empty one
\* it returns between 1 and k messages, each at a position of the input and
\* no position twice; when no message scores 40 or more it returns the first
\* min(k, n) messages in their original order.
C7_RetrieveWithinInput ==
    rpc = "done"
        => /\ corpus = <<>> => ranked = <<>>
           /\ corpus # <<>> =>
                /\ 1 <= Len(ranked)
                /\ Len(ranked) <= k
                /\ \A i \in DOMAIN ranked : ranked[i] \in DOMAIN corpus
                /\ \A i, j \in DOMAIN ranked : ranked[i] = ranked[j] => i = j
                /\ (\A i \in DOMAIN corpus : score[corpus[i]] < 40)
                      => ranked = [i \in 1..Min(k, Len(corpus)) |-> i]

\* Three messages, none scoring 40, k = 2: the first two come back.
C7_Witness ==
    /\ rpc = "done"
    /\ Len(corpus) = 3
    /\ k = 2
    /\ \A i \in DOMAIN corpus : score[corpus[i]] < 40
    /\ ranked = <<1, 2>>

(***************************************************************************)
(* Properties of format_context                                            *)
(***************************************************************************)
RECURSIVE SumLen(_)
SumLen(ls) == IF ls = <<>> THEN 0 ELSE Len(Head(ls)) + SumLen(Tail(ls))

\* C6 as stated: the returned string, newlines included, is no longer than
\* max_chars plus the length of the line that triggered the stop (0 without
\* one), and the running total before each included line is <= max_chars.
C6_LengthWithinBudgetPlusStopLine ==
    bpc = "done"
        => /\ Len(context) <= max_chars + Len(stop_line)
           /\ lines # <<>> => used - Len(lines[Len(lines)]) <= max_chars

\* C6 as amended: the running total is the length of the included lines
\* without their separators and never exceeds max_chars; the returned string
\* is longer than it by one newline for each included line after the first.
C6_RunningTotalWithinBudget ==
    /\ used = SumLen(lines)
    /\ used <= max_chars
    /\ bpc = "done"
          => Len(context) = used + (IF lines = <<>> THEN 0 ELSE Len(lines) - 1)

\* Two lines fill the budget exactly, no line is refused, and the string
\* returned is one character over the budget.
C6_Witness ==
    /\ bpc = "done"
    /\ Len(lines) = 2
    /\ used = max_chars
    /\ stop_line = <<>>
    /\ Len(context) = max_chars + 1

(***************************************************************************)
(* Properties of llm_answer and route                                      *)
(***************************************************************************)
\* C8: no failure of the answer path reaches the caller of llm_answer or of
\* route as an exception: a missing credential and a failing completion
\* call both end in a returned string.
C8_NoExceptionToCaller ==
    (qpc = "done" /\ entry \in {"llm_answer", "route"}) => outcome.kind = "returned"

(***************************************************************************)
(* Properties of detect_underspecified_requests_gpt                        *)
(***************************************************************************)
\* The candidate a reply entry addresses: the entry is a JSON integer within
\* [1, len(candidates)].
Addressed(e, cands) ==
    IF e.t = "int" /\ 1 <= e.v /\ e.v <= Len(cands) THEN <<cands[e.v]>> ELSE <<>>

\* C9: with a credential and a reply that is a JSON array, classify returns
\* exactly the candidates addressed by the entries that are integers in
\* [1, len(candidates)], the candidates being the first max_examples
\* messages with an action word; other entries contribute nothing.
C9_ExactlyAddressedCandidates ==
    (cpc = "done" /\ reply.kind = "array")
        => flagged =
             Concat([j \in DOMAIN reply.entries |->
                       Addressed(reply.entries[j],
                                 Candidates(c_messages, max_examples))])

====
